---------------------------- MODULE Spec2Model ----------------------------
(***************************************************************************)
(* A state-machine model of src/src/App.js: the React tree <App/> with its  *)
(* Canvas (frame loop), the camera rig <Controls/> (orbitControls updated   *)
(* from a useFrame callback), the asset component <ShibaGLTF/> (GLTFLoader  *)
(* load requested once on mount) and the alternative <Box/> component       *)
(* (hover/active state driving useSpring targets).                          *)
(*                                                                         *)
(* App.js is the only source file.  The controller's update(), the loader,  *)
(* the spring engine and the frame loop live in the libraries App.js        *)
(* imports (lines 4, 10, 16, 28); what they do is modelled from the         *)
(* component contracts of the specification (sections 4.1, 4.3, 4.5, 5):    *)
(* definitions marked "library" below.                                      *)
(*                                                                         *)
(* Units.  Polar angles are counted in units of PI/12 (so PI is 12).        *)
(* Azimuthal angles are counted in auto-rotation steps modulo one turn.     *)
(* Scales are counted in tenths, colour channels in 8-bit values.           *)
(***************************************************************************)
EXTENDS Integers, Sequences, FiniteSets

VARIABLES
    cam,            \* CameraState of the orbitControls: [state, polar, azimuth]
    buffer,         \* pointer events delivered since the last update()
    pointerDown,    \* whether the pointer button is physically held
    frame,          \* parity of the number of frames the Canvas has run
    drawn,          \* the camera the last draw was issued with
    frameStart,     \* the rig as the last frame found it: [ran, state, azimuth,
                    \* buffered, far], far: a polar drag of FarDelta or more was pending
    lastCalls,      \* how often the last frame's callback called update()
    model,          \* ShibaGLTF's useState value
    loader,         \* the GLTFLoader request: "inflight", "loaded" or "error"
    loadError,      \* what the loader reported: "none", "network" or "parse"
    setModelCalls,  \* how often setModel has been called
    tree,           \* the scene graph React last rendered: [canvas, group]
    drawnSettled,   \* whether a frame has been drawn since the loader called back
    hover,          \* Box's hover state
    active,         \* Box's active state
    target,         \* the useSpring targets of Box's last render: [scale, color]
    current,        \* the animated values the spring engine currently holds
    inputs          \* the pointer events Box has handled, oldest first

vars == <<cam, buffer, pointerDown, frame, drawn, frameStart, lastCalls,
          model, loader, loadError, setModelCalls, tree, drawnSettled,
          hover, active, target, current, inputs>>

rigVars == <<cam, buffer, pointerDown>>
frameVars == <<frame, drawn, frameStart, lastCalls, drawnSettled>>
assetVars == <<model, loader, loadError, setModelCalls, tree>>
boxVars == <<hover, active, target, current, inputs>>

---------------------------------------------------------------------------
(* Bounds of the model.                                                    *)

\* Auto-rotation steps in one full turn of the azimuthal angle.
TurnSteps == 3
\* Pointer events the rig buffers between two frames.
MaxBuffered == 2
\* A polar drag delta far larger than the whole polar range (PI is 12).
FarDelta == 30
\* Pointer events one Box instance receives.
MaxInputs == 3
\* Distance from the target at which an animated value counts as arrived.
Epsilon == 0

---------------------------------------------------------------------------
(* Controls (App.js 151-178).                                              *)

\* Math.PI in polar units of PI/12.
Pi == 12

\* <orbitControls autoRotate .../>
autoRotate == TRUE

\* A configuration that forgets the clamp props: OrbitControls' own default.
maxPolarAngleUnset == Pi

\* minPolarAngle={Math.PI / 3}
minPolarAngle == Pi \div 3

\* maxPolarAngle={Math.PI / 3}
maxPolarAngle == Pi \div 3

\* camera={{ position: [0, 0, 5] }}: on the +z axis of the orbit target, so
\* the polar angle starts at PI/2 and the azimuthal angle at 0.
CameraInit ==
    [state   |-> IF autoRotate THEN "AutoRotating" ELSE "Idle",
     polar   |-> Pi \div 2,
     azimuth |-> 0]

\* Library: the azimuthal advance of one update() while auto-rotating, in steps.
AutoRotateStep == 1

\* Pointer movements the environment may deliver: <<azimuth delta, polar delta>>.
Moves == {<<1, FarDelta>>, <<-1, -FarDelta>>}

Clamp(lo, hi, x) == IF x < lo THEN lo ELSE IF x > hi THEN hi ELSE x

\* Library: the rig's state machine over the buffered events, oldest first:
\* the state it ends in and the drag deltas accumulated while Dragging.
RECURSIVE Drain(_, _, _, _)
Drain(state, dAz, dPol, evs) ==
    IF evs = <<>> THEN [state |-> state, dAz |-> dAz, dPol |-> dPol]
    ELSE LET e == Head(evs) IN
         CASE e.type = "down" -> Drain("Dragging", dAz, dPol, Tail(evs))
           [] e.type = "up" ->
                Drain(IF autoRotate THEN "AutoRotating" ELSE "Idle", dAz, dPol, Tail(evs))
           [] OTHER ->
                IF state = "Dragging"
                THEN Drain(state, dAz + e.dAz, dPol + e.dPol, Tail(evs))
                ELSE Drain(state, dAz, dPol, Tail(evs))

\* Library: orbitControls.update() applies the buffered events, advances the
\* azimuthal angle by one step when auto-rotating, and clamps the polar angle.
OrbitUpdate(c, evs) ==
    LET d == Drain(c.state, 0, 0, evs)
        auto == IF autoRotate /\ d.state = "AutoRotating" THEN AutoRotateStep ELSE 0
    IN  [state   |-> d.state,
         polar   |-> Clamp(minPolarAngle, maxPolarAngle, c.polar + d.dPol),
         azimuth |-> (c.azimuth + d.dAz + auto) % TurnSteps]

\* A per-frame callback that calls update() twice.
ControlsUseFrameTwice(c, evs) ==
    [cam |-> OrbitUpdate(OrbitUpdate(c, evs), <<>>), calls |-> 2]

\* A per-frame callback that is never wired to update().
ControlsUseFrameNever(c, evs) ==
    [cam |-> c, calls |-> 0]

\* useFrame(() => { ref.current.update(); })
ControlsUseFrame(c, evs) ==
    [cam |-> OrbitUpdate(c, evs), calls |-> 1]

---------------------------------------------------------------------------
(* ShibaGLTF and App (App.js 224-274).                                     *)

\* useState(): no initial value.
Undefined == [defined |-> FALSE, scene |-> "none"]

\* The scene fragments the loader may hand to its onLoad callback.
Gltfs == {[defined |-> TRUE, scene |-> s] : s \in {"shibaScene", "emptyScene"}}

\* JavaScript truthiness of the model state.
Truthy(m) == m.defined

Node(type, object) == [type |-> type, object |-> object]

\* A render with the guard inverted.
ShibaGLTFInverted(m) ==
    IF Truthy(m) THEN <<>> ELSE <<Node("primitive", m.scene)>>

\* return model ? <primitive object={model.scene} /> : null
ShibaGLTF(m) ==
    IF Truthy(m) THEN <<Node("primitive", m.scene)>> ELSE <<>>

\* const PlaneGLTF = () => (<mesh ...>...</mesh>)
PlaneGLTF == <<Node("mesh", "plane")>>

\* The children of <Canvas> outside the group.
CanvasNodes ==
    <<Node("fog", "none"), Node("ambientLight", "none"),
      Node("spotLight", "none"), Node("orbitControls", "camera")>>

\* <Canvas> ... <group><PlaneGLTF /><ShibaGLTF /></group> </Canvas>
App(m) == [canvas |-> CanvasNodes, group |-> PlaneGLTF \o ShibaGLTF(m)]

\* What the component can tell about its load from its own state.
HandleState == IF Truthy(model) THEN "resolved" ELSE "pending"

---------------------------------------------------------------------------
(* Box (App.js 192-222).                                                   *)

Gray == <<128, 128, 128>>
Red == <<255, 0, 0>>

\* useSpring targets with the two conditions exchanged.
SpringTargetsSwapped(h, a) ==
    [scale |-> IF h THEN <<15, 15, 15>> ELSE <<10, 10, 10>>,
     color |-> IF a THEN Red ELSE Gray]

\* useSpring({ scale: active ? [1.5,1.5,1.5] : [1,1,1], color: hover ? 'red' : 'gray' })
SpringTargets(h, a) ==
    [scale |-> IF a THEN <<15, 15, 15>> ELSE <<10, 10, 10>>,
     color |-> IF h THEN Red ELSE Gray]

\* Library: per-tick advance of a scale component (tenths) and of a colour
\* channel.
ScaleStep == 1
ColorStep == 64

Abs(x) == IF x < 0 THEN -x ELSE x

\* Library: one eased step of a scalar toward its target, never past it.
Ease(x, t, step) ==
    IF Abs(t - x) <= step THEN t ELSE IF t > x THEN x + step ELSE x - step

EaseVec(v, t, step) == [i \in 1..3 |-> Ease(v[i], t[i], step)]

Dist(v, t) == Abs(v[1] - t[1]) + Abs(v[2] - t[2]) + Abs(v[3] - t[3])

---------------------------------------------------------------------------
(* Initial state: the tree after its first render and its mount effects.   *)

Init ==
    /\ cam = CameraInit
    /\ buffer = <<>>
    /\ pointerDown = FALSE
    /\ frame = 0
    /\ drawn = CameraInit
    /\ frameStart = [ran |-> FALSE, state |-> CameraInit.state,
                     azimuth |-> CameraInit.azimuth, buffered |-> FALSE, far |-> FALSE]
    /\ lastCalls = 0
    /\ model = Undefined
    /\ loader = "inflight"
    /\ loadError = "none"
    /\ setModelCalls = 0
    /\ tree = App(Undefined)
    /\ drawnSettled = FALSE
    /\ hover = FALSE
    /\ active = FALSE
    /\ target = SpringTargets(FALSE, FALSE)
    /\ current = SpringTargets(FALSE, FALSE)
    /\ inputs = <<>>

---------------------------------------------------------------------------
(* Actions of the program as written: Controls, ShibaGLTF, the frame loop. *)

Deliver(e) ==
    /\ Len(buffer) < MaxBuffered
    /\ buffer' = Append(buffer, e)

PointerDown ==
    /\ ~pointerDown
    /\ Deliver([type |-> "down", dAz |-> 0, dPol |-> 0])
    /\ pointerDown' = TRUE
    /\ UNCHANGED <<cam, frameVars, assetVars, boxVars>>

PointerMove ==
    /\ \E m \in Moves : Deliver([type |-> "move", dAz |-> m[1], dPol |-> m[2]])
    /\ UNCHANGED <<cam, pointerDown, frameVars, assetVars, boxVars>>

PointerUp ==
    /\ pointerDown
    /\ Deliver([type |-> "up", dAz |-> 0, dPol |-> 0])
    /\ pointerDown' = FALSE
    /\ UNCHANGED <<cam, frameVars, assetVars, boxVars>>

\* Library: one frame of the Canvas runs the useFrame callbacks, then draws
\* the scene with the camera they left.
Frame ==
    LET r == ControlsUseFrame(cam, buffer) IN
    /\ frameStart' = [ran |-> TRUE, state |-> cam.state,
                      azimuth |-> cam.azimuth, buffered |-> buffer # <<>>,
                      far |-> Drain(cam.state, 0, 0, buffer).dPol >= FarDelta]
    /\ cam' = r.cam
    /\ lastCalls' = r.calls
    /\ buffer' = IF r.calls > 0 THEN <<>> ELSE buffer
    /\ drawn' = r.cam
    /\ frame' = 1 - frame
    /\ drawnSettled' = (loader # "inflight")
    /\ UNCHANGED <<pointerDown, assetVars, boxVars>>

\* The loader calls onLoad, which is setModel; React renders again.
LoadSuccess ==
    /\ loader = "inflight"
    /\ \E g \in Gltfs :
          /\ model' = g
          /\ tree' = App(g)
    /\ loader' = "loaded"
    /\ setModelCalls' = setModelCalls + 1
    /\ UNCHANGED <<loadError, rigVars, frameVars, boxVars>>

\* The fetch or the parse fails.  load() was given no onError callback, so
\* the loader only reports the error; no state of the component changes.
LoadFailure ==
    /\ loader = "inflight"
    /\ loader' = "error"
    /\ \E k \in {"network", "parse"} : loadError' = k
    /\ UNCHANGED <<model, setModelCalls, tree, rigVars, frameVars, boxVars>>

\* React renders the tree again from unchanged state.
Rerender ==
    /\ tree' = App(model)
    /\ UNCHANGED <<model, loader, loadError, setModelCalls, rigVars, frameVars, boxVars>>

Next ==
    \/ PointerDown
    \/ PointerMove
    \/ PointerUp
    \/ Frame
    \/ LoadSuccess
    \/ LoadFailure
    \/ Rerender

Spec == Init /\ [][Next]_vars

\* The Canvas runs its frame loop continuously.
FairSpec == Spec /\ WF_vars(Frame)

---------------------------------------------------------------------------
(* Actions of the alternative group: a Box instance and its springs.       *)

BoxInput(name) ==
    /\ Len(inputs) < MaxInputs
    /\ inputs' = Append(inputs, name)

\* onPointerOver={() => setHover(true)}, then the render it causes.
BoxPointerOver ==
    /\ BoxInput("over")
    /\ hover' = TRUE
    /\ target' = SpringTargets(TRUE, active)
    /\ UNCHANGED <<active, current, rigVars, frameVars, assetVars>>

\* onPointerOut={() => setHover(false)}, then the render it causes.
BoxPointerOut ==
    /\ BoxInput("out")
    /\ hover' = FALSE
    /\ target' = SpringTargets(FALSE, active)
    /\ UNCHANGED <<active, current, rigVars, frameVars, assetVars>>

\* onClick={() => setActive(!active)}, then the render it causes.
BoxClick ==
    /\ BoxInput("click")
    /\ active' = ~active
    /\ target' = SpringTargets(hover, ~active)
    /\ UNCHANGED <<hover, current, rigVars, frameVars, assetVars>>

\* Library: one tick of the spring engine while a value is in flight.
SpringTick ==
    /\ current # target
    /\ current' = [scale |-> EaseVec(current.scale, target.scale, ScaleStep),
                   color |-> EaseVec(current.color, target.color, ColorStep)]
    /\ UNCHANGED <<hover, active, target, inputs, rigVars, frameVars, assetVars>>

NextBox ==
    \/ BoxPointerOver
    \/ BoxPointerOut
    \/ BoxClick
    \/ SpringTick

BoxSpec == Init /\ [][NextBox]_vars

\* The spring engine keeps ticking while a value is in flight.
FairBoxSpec == BoxSpec /\ WF_vars(SpringTick)

---------------------------------------------------------------------------
(* Claims about the camera rig.                                            *)

\* C1: after every tick of the camera rig the polar angle lies within
\* [minPolarAngle, maxPolarAngle], whatever drag deltas were delivered, and
\* with the configured min = max = PI/3 it is exactly PI/3.
C1_PolarClamped ==
    frameStart.ran =>
        /\ minPolarAngle <= cam.polar
        /\ cam.polar <= maxPolarAngle
        /\ cam.polar = Pi \div 3
        /\ drawn.polar = Pi \div 3

\* A tick has applied a drag whose polar delta alone is far outside the range.
C1_FarDragApplied ==
    /\ frameStart.ran
    /\ frameStart.far
    /\ CameraInit.polar # Pi \div 3
    /\ cam.polar = Pi \div 3

\* C6: a frame that finds the rig AutoRotating with no drag input pending
\* calls update() exactly once and advances the azimuthal angle by exactly
\* one increment; two calls advance it by exactly two increments; every
\* frame's callback calls update() exactly once.
C6_OneStepPerFrame ==
    /\ frameStart.ran => lastCalls = 1
    /\ (frameStart.ran /\ frameStart.state = "AutoRotating" /\ ~frameStart.buffered) =>
          cam.azimuth = (frameStart.azimuth + AutoRotateStep) % TurnSteps
    /\ (cam.state = "AutoRotating") =>
          /\ OrbitUpdate(cam, <<>>).azimuth = (cam.azimuth + AutoRotateStep) % TurnSteps
          /\ OrbitUpdate(OrbitUpdate(cam, <<>>), <<>>).azimuth
                = (cam.azimuth + 2 * AutoRotateStep) % TurnSteps
          /\ OrbitUpdate(OrbitUpdate(cam, <<>>), <<>>).azimuth
                # OrbitUpdate(cam, <<>>).azimuth

\* A frame found the rig AutoRotating with nothing buffered and advanced it.
C6_AutoFrameRan ==
    /\ frameStart.ran
    /\ frameStart.state = "AutoRotating"
    /\ ~frameStart.buffered
    /\ lastCalls = 1
    /\ cam.azimuth = (frameStart.azimuth + 1) % TurnSteps
    /\ cam.azimuth # frameStart.azimuth

---------------------------------------------------------------------------
(* Claims about the asset.                                                 *)

\* The nodes of the group after the ground plane: the asset subtree.
AssetSubtree == SubSeq(tree.group, 2, Len(tree.group))

\* C2: the load handle starts pending and makes exactly one transition to a
\* terminal state (resolved or failed) once the loader has finished.
C2_ExactlyOneTransition ==
    /\ loader = "inflight" => (HandleState = "pending" /\ setModelCalls = 0)
    /\ loader # "inflight" =>
          (HandleState \in {"resolved", "failed"} /\ setModelCalls = 1)

\* C3: when the fetch or the parse fails, the handle is in a failed state
\* distinct from pending and from resolved.
C3_FailureIsDistinct ==
    loader = "error" => HandleState \notin {"pending", "resolved"}

\* C4: the asset subtree is a function of the load handle: empty while the
\* load is pending, empty when it has failed, and exactly one node holding
\* the fragment the loader delivered once it is resolved.
C4_SubtreeFollowsHandle ==
    /\ ~model.defined => AssetSubtree = <<>>
    /\ model.defined =>
          AssetSubtree = <<[type |-> "primitive", object |-> model.scene]>>
    /\ loader \in {"inflight", "error"} => AssetSubtree = <<>>
    /\ loader = "loaded" =>
          /\ Len(AssetSubtree) = 1
          /\ AssetSubtree[1].object \in {"shibaScene", "emptyScene"}

\* The load has resolved and its fragment is in the scene graph.
C4_FragmentRendered ==
    /\ loader = "loaded"
    /\ model.scene = "shibaScene"
    /\ tree.group = <<[type |-> "mesh", object |-> "plane"],
                      [type |-> "primitive", object |-> "shibaScene"]>>

\* C5: after a failed load the frame loop keeps running for ever (frames of
\* both parities recur, each ticking the camera rig and drawing), and the
\* fog, the lights, the camera rig and the ground plane stay in the scene
\* graph.
C5_FailureDoesNotHalt ==
    /\ [](loader = "error" =>
            /\ \A t \in {"fog", "ambientLight", "spotLight", "orbitControls"} :
                  \E i \in 1..Len(tree.canvas) : tree.canvas[i].type = t
            /\ Len(tree.group) >= 1
            /\ tree.group[1] = [type |-> "mesh", object |-> "plane"])
    /\ [](drawnSettled => (lastCalls >= 1 /\ drawn = cam))
    /\ []<>(loader = "error" => (frame = 0 /\ drawnSettled))
    /\ []<>(loader = "error" => (frame = 1 /\ drawnSettled))

\* A frame has ticked and drawn after the load failed.
C5_FrameAfterFailure ==
    /\ loader = "error"
    /\ drawnSettled
    /\ lastCalls = 1
    /\ drawn = cam
    /\ Len(tree.canvas) = 4

---------------------------------------------------------------------------
(* Claims about the Box.                                                   *)

\* C9: at every render the scale target is [1.5,1.5,1.5] when active and
\* [1,1,1] otherwise, the colour target is red when hover and gray
\* otherwise; pointer-over then click from the initial state gives
\* (scale = [1.5,1.5,1.5], colour = red); once no further input arrives the
\* current values come to equal the targets within epsilon.
C9_TargetsFollowInteraction ==
    /\ [](/\ target.scale = (IF active THEN <<15, 15, 15>> ELSE <<10, 10, 10>>)
          /\ target.color = (IF hover THEN <<255, 0, 0>> ELSE <<128, 128, 128>>))
    /\ [](inputs = <<"over", "click">> =>
            target = [scale |-> <<15, 15, 15>>, color |-> <<255, 0, 0>>])
    /\ <>[](/\ Dist(current.scale, target.scale) <= Epsilon
            /\ Dist(current.color, target.color) <= Epsilon)

\* Pointer-over then click have been handled and the values have arrived.
C9_HoveredClickedArrived ==
    /\ inputs = <<"over", "click">>
    /\ hover /\ active
    /\ current = [scale |-> <<15, 15, 15>>, color |-> <<255, 0, 0>>]

=============================================================================
